---- MODULE Spec2Model ----
(***************************************************************************)
(* ArchSync consensus engine: src/lib/clustering.ts.                       *)
(*                                                                         *)
(* cosineSimilarity, clusterUnderstandings and calculateConsensus, with the *)
(* code's numbers as IEEE-754 doubles.  The embedding vectors of the model *)
(* have small non-negative integer components, so the sums of lines 25-27  *)
(* are exact; Math.sqrt, the product of the magnitudes and the division of *)
(* line 37 each round.                                                     *)
(***************************************************************************)
EXTENDS Integers, Sequences, FiniteSets, TLC

VARIABLES understandings, pc, validUnderstandings, clusters, i, j,
          similarity, result, consensus, other, adrs, posts

vars == <<understandings, pc, validUnderstandings, clusters, i, j,
          similarity, result, consensus, other, adrs, posts>>

(* Largest number of statements in one input list. *)
MaxLen == 3

(* Largest number of statements in an input list of two invocations whose  *)
(* steps interleave.                                                       *)
MaxInterleavedLen == 2

(* Largest number of statements in an input list of the runs that examine  *)
(* the order of clusters and of members.                                   *)
MaxOrderingLen == 6

(* Largest number of statements of the module an ADR is generated for, and *)
(* the number of requests for an ADR that are in progress together.        *)
MaxAdrLen == 10
MaxPosts == 2

(***************************************************************************)
(* The code's `number`: IEEE-754 binary64.  A finite double is             *)
(*   [neg, man, exp]  with value  (-1)^neg * man * 2^exp,                  *)
(* man a natural number of exactly MantissaBits bits, or 0 (then exp = 0). *)
(* Naturals wider than TLC's integers are little-endian sequences of limbs *)
(* below LimbBase with no leading zero limb, so equal numbers are equal    *)
(* values.  Every operation returns the exact result rounded to nearest,   *)
(* ties to even, as the hardware does.  Subnormals, infinities and NaN do  *)
(* not arise on the inputs of the model.                                   *)
(***************************************************************************)
MantissaBits == 53

LimbBits == 15

LimbBase == 2 ^ LimbBits

RECURSIVE BTrim(_)
BTrim(x) ==
    IF x = <<>> THEN <<>>
    ELSE IF x[Len(x)] = 0 THEN BTrim(SubSeq(x, 1, Len(x) - 1)) ELSE x

RECURSIVE BFromInt(_)
BFromInt(k) ==
    IF k = 0 THEN <<>> ELSE <<k % LimbBase>> \o BFromInt(k \div LimbBase)

RECURSIVE BMulCarry(_, _, _)
BMulCarry(x, k, carry) ==
    IF x = <<>> THEN BFromInt(carry)
    ELSE LET t == Head(x) * k + carry
         IN  <<t % LimbBase>> \o BMulCarry(Tail(x), k, t \div LimbBase)

(* x * k for 0 <= k <= LimbBase. *)
BMulSmall(x, k) == BTrim(BMulCarry(x, k, 0))

RECURSIVE BAddCarry(_, _, _)
BAddCarry(x, y, carry) ==
    IF x = <<>> /\ y = <<>> THEN BFromInt(carry)
    ELSE LET a == IF x = <<>> THEN 0 ELSE Head(x)
             b == IF y = <<>> THEN 0 ELSE Head(y)
             t == a + b + carry
         IN  <<t % LimbBase>> \o
             BAddCarry(IF x = <<>> THEN <<>> ELSE Tail(x),
                       IF y = <<>> THEN <<>> ELSE Tail(y), t \div LimbBase)

BAdd(x, y) == BTrim(BAddCarry(x, y, 0))

(* <<x \div n, x % n>> for 0 < n <= LimbBase; the quotient is untrimmed. *)
RECURSIVE BDivRem(_, _)
BDivRem(x, n) ==
    IF x = <<>> THEN << <<>>, 0 >>
    ELSE LET hi == BDivRem(Tail(x), n)
             t == hi[2] * LimbBase + Head(x)
         IN  << <<t \div n>> \o hi[1], t % n >>

(* x * 2^s *)
RECURSIVE BShl(_, _)
BShl(x, s) ==
    IF x = <<>> THEN <<>>
    ELSE IF s >= LimbBits THEN <<0>> \o BShl(x, s - LimbBits)
         ELSE BMulSmall(x, 2 ^ s)

(* x \div 2^s *)
RECURSIVE BShr(_, _)
BShr(x, s) ==
    IF x = <<>> THEN <<>>
    ELSE IF s >= LimbBits THEN BShr(Tail(x), s - LimbBits)
         ELSE BTrim(BDivRem(x, 2 ^ s)[1])

RECURSIVE BLowLimbs(_, _)
BLowLimbs(x, s) ==
    IF x = <<>> \/ s = 0 THEN <<>>
    ELSE IF s >= LimbBits THEN <<Head(x)>> \o BLowLimbs(Tail(x), s - LimbBits)
         ELSE <<Head(x) % (2 ^ s)>>

(* x % 2^s *)
BLow(x, s) == BTrim(BLowLimbs(x, s))

RECURSIVE IntBitLen(_)
IntBitLen(k) == IF k = 0 THEN 0 ELSE 1 + IntBitLen(k \div 2)

BBitLen(x) ==
    IF x = <<>> THEN 0 ELSE LimbBits * (Len(x) - 1) + IntBitLen(x[Len(x)])

(* -1, 0, 1 as x < y, x = y, x > y *)
RECURSIVE BCmp(_, _)
BCmp(x, y) ==
    IF Len(x) # Len(y) THEN (IF Len(x) < Len(y) THEN -1 ELSE 1)
    ELSE IF x = <<>> THEN 0
    ELSE IF x[Len(x)] # y[Len(y)]
         THEN (IF x[Len(x)] < y[Len(y)] THEN -1 ELSE 1)
         ELSE BCmp(BTrim(SubSeq(x, 1, Len(x) - 1)),
                   BTrim(SubSeq(y, 1, Len(y) - 1)))

BOdd(x) == x # <<>> /\ Head(x) % 2 = 1

(* x - y for x >= y *)
RECURSIVE BSubBorrow(_, _, _)
BSubBorrow(x, y, borrow) ==
    IF x = <<>> THEN <<>>
    ELSE LET b == IF y = <<>> THEN 0 ELSE Head(y)
             t == Head(x) - b - borrow
         IN  <<IF t < 0 THEN t + LimbBase ELSE t>> \o
             BSubBorrow(Tail(x), IF y = <<>> THEN <<>> ELSE Tail(y),
                        IF t < 0 THEN 1 ELSE 0)

BSub(x, y) == BTrim(BSubBorrow(x, y, 0))

RECURSIVE BMul(_, _)
BMul(x, y) ==
    IF x = <<>> \/ y = <<>> THEN <<>>
    ELSE BAdd(BMulSmall(x, Head(y)), BShl(BMul(x, Tail(y)), LimbBits))

(* In the operators below an intermediate value that is used more than     *)
(* once is bound as the element of a one-element set, so that it is        *)
(* computed once.                                                          *)

(* One quotient digit of t by d, for t < d * LimbBase and a divisor whose  *)
(* top limb has all its bits: the estimate from the leading limbs is at    *)
(* most 2 too large.                                                       *)
BDigit(t, d) ==
    IF BCmp(t, d) < 0 THEN 0
    ELSE LET n == Len(d)
             top == (IF Len(t) > n THEN t[n + 1] ELSE 0) * LimbBase + t[n]
             q == top \div d[n]
             est == IF q >= LimbBase THEN LimbBase - 1 ELSE q
         IN  IF BCmp(BMulSmall(d, est), t) <= 0 THEN est
             ELSE IF BCmp(BMulSmall(d, est - 1), t) <= 0 THEN est - 1
             ELSE est - 2

(* Long division, one limb a step: <<quotient (untrimmed), remainder>>. *)
RECURSIVE BDivLimbs(_, _)
BDivLimbs(x, d) ==
    IF x = <<>> THEN << <<>>, <<>> >>
    ELSE CHOOSE r \in
             { << <<g[2]>> \o g[3], BSub(g[1], BMulSmall(d, g[2])) >> :
                 g \in { <<t[1], BDigit(t[1], d), t[2]>> :
                     t \in { <<BTrim(<<Head(x)>> \o hi[2]), hi[1]>> :
                         hi \in {BDivLimbs(Tail(x), d)} } } } : TRUE

(* <<x \div d, whether d divides x>> for d # 0. *)
BDiv(x, d) ==
    LET s == LimbBits - IntBitLen(d[Len(d)])
    IN  CHOOSE r \in
            { <<BTrim(qr[1]), qr[2] = <<>> >> :
                qr \in { BDivLimbs(BShl(x, s), ds) : ds \in {BShl(d, s)} } } : TRUE

(* The integer square root of n by Newton's iteration from x >= root. *)
RECURSIVE BSqrtNewton(_, _)
BSqrtNewton(x, n) ==
    CHOOSE r \in
        { IF BCmp(y, x) >= 0 THEN x ELSE BSqrtNewton(y, n) :
            y \in {BShr(BAdd(x, BDiv(n, x)[1]), 1)} } : TRUE

BSqrt(n) ==
    IF n = <<>> THEN <<>>
    ELSE BSqrtNewton(BShl(<<1>>, (BBitLen(n) + 1) \div 2), n)

Abs(k) == IF k < 0 THEN -k ELSE k

FZero == [neg |-> FALSE, man |-> <<>>, exp |-> 0]

(* The double nearest to (-1)^neg * n * 2^e, ties to even. *)
RoundBig(neg, n, e) ==
    LET len == BBitLen(n)
    IN  IF len = 0 THEN FZero
        ELSE IF len <= MantissaBits
        THEN [neg |-> neg, man |-> BShl(n, MantissaBits - len),
              exp |-> e - (MantissaBits - len)]
        ELSE LET s == len - MantissaBits
                 q == BShr(n, s)
                 half == BCmp(BLow(n, s), BShl(<<1>>, s - 1))
                 up == half = 1 \/ (half = 0 /\ BOdd(q))
                 q1 == IF up THEN BAdd(q, <<1>>) ELSE q
             IN  IF BBitLen(q1) > MantissaBits
                 THEN [neg |-> neg, man |-> BShr(q1, 1), exp |-> e + s + 1]
                 ELSE [neg |-> neg, man |-> q1, exp |-> e + s]

FFromInt(k) == RoundBig(k < 0, BFromInt(Abs(k)), 0)

(* x / n for 0 < n <= LimbBase: the quotient keeps GuardBits more bits  *)
(* than a mantissa, and a last bit that records a non-zero remainder.      *)
GuardBits == 2 * LimbBits

FDivSmall(x, n) ==
    LET qr == BDivRem(BShl(x.man, GuardBits), n)
        sticky == IF qr[2] = 0 THEN <<>> ELSE <<1>>
    IN  RoundBig(x.neg, BAdd(BShl(BTrim(qr[1]), 1), sticky),
                 x.exp - GuardBits - 1)

(* k / n for integers k and 0 < n <= LimbBase. *)
FDivInt(k, n) == FDivSmall(FFromInt(k), n)

(* x * k for an integer |k| <= LimbBase. *)
FMulInt(x, k) ==
    RoundBig((x.neg /\ k > 0) \/ (~x.neg /\ k < 0), BMulSmall(x.man, Abs(k)), x.exp)

(* x + y for x, y of the same sign (or zero). *)
FAdd(x, y) ==
    IF x.man = <<>> THEN y
    ELSE IF y.man = <<>> THEN x
    ELSE LET e == IF x.exp < y.exp THEN x.exp ELSE y.exp
         IN  RoundBig(x.neg, BAdd(BShl(x.man, x.exp - e), BShl(y.man, y.exp - e)), e)

(* x * y *)
FMul(x, y) == RoundBig(x.neg # y.neg, BMul(x.man, y.man), x.exp + y.exp)

(* x / y for y # 0: a quotient of more bits than a mantissa, and a last   *)
(* bit that records a non-zero remainder.                                  *)
FDiv(x, y) ==
    IF x.man = <<>> THEN FZero
    ELSE CHOOSE r \in
             { RoundBig(x.neg # y.neg,
                        BAdd(BMulSmall(qr[1], 2), IF qr[2] THEN <<>> ELSE <<1>>),
                        x.exp - y.exp - 2 * GuardBits - 1) :
                 qr \in {BDiv(BShl(x.man, 2 * GuardBits), y.man)} } : TRUE

(* Math.sqrt(x) for x >= 0, correctly rounded: the integer square root of  *)
(* the mantissa scaled to an even exponent, and a last bit that records an *)
(* inexact root.                                                           *)
FSqrt(x) ==
    IF x.man = <<>> THEN FZero
    ELSE LET odd == x.exp % 2 # 0
             m == IF odd THEN BMulSmall(x.man, 2) ELSE x.man
             e == IF odd THEN x.exp - 1 ELSE x.exp
         IN  CHOOSE r \in
                 { RoundBig(FALSE,
                            BAdd(BMulSmall(nr[2], 2),
                                 IF BMul(nr[2], nr[2]) = nr[1] THEN <<>> ELSE <<1>>),
                            (e \div 2) - GuardBits - 1) :
                     nr \in { <<n, BSqrt(n)>> : n \in {BShl(m, 2 * GuardBits)} } } : TRUE

(* -1, 0, 1 as |x| < |y|, |x| = |y|, |x| > |y| *)
FCmpAbs(x, y) ==
    IF x.man = <<>> \/ y.man = <<>>
    THEN (IF x.man = y.man THEN 0 ELSE IF x.man = <<>> THEN -1 ELSE 1)
    ELSE IF x.exp # y.exp THEN (IF x.exp < y.exp THEN -1 ELSE 1)
    ELSE BCmp(x.man, y.man)

FCmp(x, y) ==
    IF x.neg # y.neg
    THEN (IF x.man = <<>> /\ y.man = <<>> THEN 0 ELSE IF x.neg THEN -1 ELSE 1)
    ELSE IF x.neg THEN FCmpAbs(y, x) ELSE FCmpAbs(x, y)

FGe(x, y) == FCmp(x, y) >= 0

FGt(x, y) == FCmp(x, y) > 0

(***************************************************************************)
(* Embeddings.  A statement's embedding is Null or Some(vector); the       *)
(* vector may be empty.                                                    *)
(***************************************************************************)
Null == <<>>

Some(v) == <<v>>

(* Equal-length vectors.  VA .. VD have integer norms:                     *)
(*   VA.VB = 16/20  VA.VC = 12/20  VB.VC = 24/25  VA.VD = 12/16 = 0.75     *)
(* VE has norm sqrt(2) and is far from VA .. VD.                           *)
VA == <<4, 0, 0, 0, 0>>
VB == <<4, 3, 0, 0, 0>>
VC == <<3, 4, 0, 0, 0>>
VD == <<3, 2, 1, 1, 1>>
VE == <<0, 0, 0, 1, 1>>
VZero == <<0, 0, 0, 0, 0>>
(* A vector of another length. *)
VShort == <<3, 4>>

Vectors == {VA, VB, VC, VD, VE, VZero, VShort}

(* Two vectors that are similar to VA and to VC to the same degree         *)
(* (6 / sqrt 61, about 0.768) and not similar to each other (45/61).       *)
VJ == <<6, 3, 4, 0, 0>>
VK == <<6, 3, 0, 4, 0>>

(* Embeddings held by at most one statement of a list, and one that any    *)
(* number of statements hold.                                              *)
RareVectors == {VA, VC, VJ, VK}
CommonVector == VE

Embeddings == {Null, Some(<<>>)} \cup {Some(v) : v \in Vectors}

(* The statement at input position p: ids are pairwise distinct. *)
Understanding(p, e) ==
    [id |-> p, understanding_text |-> <<"text", p>>, embedding |-> e]

Inputs ==
    UNION {{[p \in 1..n |-> Understanding(p, es[p])] :
                es \in [1..n -> Embeddings]} : n \in 0..MaxLen}

(***************************************************************************)
(* cosineSimilarity (clustering.ts 15-38)                                  *)
(***************************************************************************)
RECURSIVE SumProducts(_, _, _)
SumProducts(vecA, vecB, k) ==
    IF k = 0 THEN 0
    ELSE SumProducts(vecA, vecB, k - 1) + vecA[k] * vecB[k]

(* Math.sqrt of a sum of squares. *)
Sqrt(n) == FSqrt(FFromInt(n))

Threw == [kind |-> "throw"]

Returned(v) == [kind |-> "return", value |-> v]

(* Mutant: a length mismatch is not checked; the longer vector is cut. *)
cosineSimilarityTruncating(vecA, vecB) ==
    LET n == IF Len(vecA) < Len(vecB) THEN Len(vecA) ELSE Len(vecB)
        dotProduct == SumProducts(vecA, vecB, n)
        magnitudeA == Sqrt(SumProducts(vecA, vecA, n))
        magnitudeB == Sqrt(SumProducts(vecB, vecB, n))
    IN  IF magnitudeA = FZero \/ magnitudeB = FZero
        THEN Returned(FZero)
        ELSE Returned(FDiv(FFromInt(dotProduct), FMul(magnitudeA, magnitudeB)))

(* What the division 0 / 0 gives. *)
FNaN == [neg |-> FALSE, man |-> <<>>, exp |-> 1]

(* Mutant: the zero-magnitude guard of lines 33-35 is missing. *)
cosineSimilarityNoZeroGuard(vecA, vecB) ==
    IF Len(vecA) # Len(vecB)
    THEN Threw
    ELSE LET dotProduct == SumProducts(vecA, vecB, Len(vecA))
             magnitudeA == Sqrt(SumProducts(vecA, vecA, Len(vecA)))
             magnitudeB == Sqrt(SumProducts(vecB, vecB, Len(vecA)))
         IN  IF magnitudeA = FZero \/ magnitudeB = FZero
             THEN Returned(FNaN)
             ELSE Returned(FDiv(FFromInt(dotProduct), FMul(magnitudeA, magnitudeB)))

(* Mutant: the divisor is the square of the first magnitude. *)
cosineSimilarityFirstMagnitude(vecA, vecB) ==
    IF Len(vecA) # Len(vecB)
    THEN Threw
    ELSE LET dotProduct == SumProducts(vecA, vecB, Len(vecA))
             magnitudeA == Sqrt(SumProducts(vecA, vecA, Len(vecA)))
             magnitudeB == Sqrt(SumProducts(vecB, vecB, Len(vecA)))
         IN  IF magnitudeA = FZero \/ magnitudeB = FZero
             THEN Returned(FZero)
             ELSE Returned(FDiv(FFromInt(dotProduct), FMul(magnitudeA, magnitudeA)))

(* Mutant: the magnitudes are the sums of squares, without Math.sqrt. *)
cosineSimilarityNoSqrt(vecA, vecB) ==
    IF Len(vecA) # Len(vecB)
    THEN Threw
    ELSE LET dotProduct == SumProducts(vecA, vecB, Len(vecA))
             magnitudeA == FFromInt(SumProducts(vecA, vecA, Len(vecA)))
             magnitudeB == FFromInt(SumProducts(vecB, vecB, Len(vecA)))
         IN  IF magnitudeA = FZero \/ magnitudeB = FZero
             THEN Returned(FZero)
             ELSE Returned(FDiv(FFromInt(dotProduct), FMul(magnitudeA, magnitudeB)))

cosineSimilarity(vecA, vecB) ==
    IF Len(vecA) # Len(vecB)
    THEN Threw
    ELSE LET dotProduct == SumProducts(vecA, vecB, Len(vecA))
             magnitudeA == Sqrt(SumProducts(vecA, vecA, Len(vecA)))
             magnitudeB == Sqrt(SumProducts(vecB, vecB, Len(vecA)))
         IN  IF magnitudeA = FZero \/ magnitudeB = FZero
             THEN Returned(FZero)
             ELSE Returned(FDiv(FFromInt(dotProduct), FMul(magnitudeA, magnitudeB)))

(* predictions/route.ts 261-280; the caller (lines 111-115) passes two     *)
(* arrays, never null.                                                     *)
calculateCosineSimilarity(vec1, vec2) ==
    IF Len(vec1) # Len(vec2)
    THEN Returned(FZero)
    ELSE LET dotProduct == SumProducts(vec1, vec2, Len(vec1))
             mag1 == Sqrt(SumProducts(vec1, vec1, Len(vec1)))
             mag2 == Sqrt(SumProducts(vec2, vec2, Len(vec1)))
         IN  IF mag1 = FZero \/ mag2 = FZero
             THEN Returned(FZero)
             ELSE Returned(FDiv(FFromInt(dotProduct), FMul(mag1, mag2)))

(* The values of cosineSimilarity on the vectors of the model, tabulated    *)
(* once (@@ makes the table explicit).                                     *)
Similarities ==
    [p \in (Vectors \cup RareVectors \cup {<<>>})
              \X (Vectors \cup RareVectors \cup {<<>>}) |->
        cosineSimilarity(p[1], p[2])] @@ <<>>

(***************************************************************************)
(* clusterUnderstandings (clustering.ts 44-126)                            *)
(***************************************************************************)
(* Mutant: the threshold is 0.5. *)
SIMILARITY_THRESHOLD_HALF == FDivInt(1, 2)

(* 0.75 *)
SIMILARITY_THRESHOLD == FDivInt(3, 4)

(* The filter predicate of line 48. *)
HasEmbedding(u) == u.embedding # Null /\ Len(u.embedding[1]) > 0

(* Mutant: the filter tests only that the embedding is not null. *)
RECURSIVE FilterNonNull(_)
FilterNonNull(us) ==
    IF us = <<>> THEN <<>>
    ELSE IF Head(us).embedding # Null
         THEN <<Head(us)>> \o FilterNonNull(Tail(us))
         ELSE FilterNonNull(Tail(us))

(* Mutant: the filter also drops the embeddings whose components are all  *)
(* zero.                                                                    *)
RECURSIVE FilterDroppingZero(_)
FilterDroppingZero(us) ==
    IF us = <<>> THEN <<>>
    ELSE IF /\ HasEmbedding(Head(us))
            /\ \E k \in 1..Len(Head(us).embedding[1]) : Head(us).embedding[1][k] # 0
         THEN <<Head(us)>> \o FilterDroppingZero(Tail(us))
         ELSE FilterDroppingZero(Tail(us))

(* Line 48. *)
RECURSIVE Filter(_)
Filter(us) ==
    IF us = <<>> THEN <<>>
    ELSE IF HasEmbedding(Head(us))
         THEN <<Head(us)>> \o Filter(Tail(us))
         ELSE Filter(Tail(us))

(* Mutant: the filter removes the dropped statements from its receiver. *)
InputAfterFilterInPlace(us) == Filter(us)

(* Line 48: Array.prototype.filter builds a new array and leaves the array *)
(* it is called on as it was.                                              *)
InputAfterFilter(us) == us

Singletons(us) == [k \in 1..Len(us) |-> <<us[k]>>]

(* Lines 67-77: the last cluster holding a member with this id; 0 for the *)
(* code's -1.                                                              *)
ClusterOf(cs, id) ==
    LET hits == {k \in 1..Len(cs) : \E m \in 1..Len(cs[k]) : cs[k][m].id = id}
    IN  IF hits = {} THEN 0 ELSE CHOOSE k \in hits : \A h \in hits : h <= k

(* Mutant: the merged-away cluster is not removed. *)
SpliceNone(cs, at) == cs

(* Array.prototype.splice(at, 1). *)
Splice(cs, at) ==
    [k \in 1..(Len(cs) - 1) |-> IF k < at THEN cs[k] ELSE cs[k + 1]]

(* Mutant: merges only when i's cluster precedes j's in the working list. *)
MergeOrdered(cs, clusterI, clusterJ) ==
    IF clusterI < clusterJ /\ clusterI # 0 /\ clusterJ # 0
    THEN Splice([cs EXCEPT ![clusterI] = cs[clusterI] \o cs[clusterJ]], clusterJ)
    ELSE cs

(* Mutant: the members of j's cluster are put in front of those of i's. *)
MergePrepending(cs, clusterI, clusterJ) ==
    IF clusterI # clusterJ /\ clusterI # 0 /\ clusterJ # 0
    THEN Splice([cs EXCEPT ![clusterI] = cs[clusterJ] \o cs[clusterI]], clusterJ)
    ELSE cs

(* Lines 80-83. *)
Merge(cs, clusterI, clusterJ) ==
    IF clusterI # clusterJ /\ clusterI # 0 /\ clusterJ # 0
    THEN Splice([cs EXCEPT ![clusterI] = cs[clusterI] \o cs[clusterJ]], clusterJ)
    ELSE cs

(* Mutant: the threshold is exclusive. *)
MeetsThresholdStrict(sim) == FGt(sim, SIMILARITY_THRESHOLD)

(* Line 65. *)
MeetsThreshold(sim) == FGe(sim, SIMILARITY_THRESHOLD)

(* Mutant: a pair is merged only when the first statement's id is the     *)
(* smaller one.                                                            *)
MergePairAscendingIds(cs, ui, uj, sim) ==
    IF MeetsThreshold(sim) /\ ui.id < uj.id
    THEN Merge(cs, ClusterOf(cs, ui.id), ClusterOf(cs, uj.id))
    ELSE cs

(* Lines 65-84 for one evaluated pair. *)
MergePair(cs, ui, uj, sim) ==
    IF MeetsThreshold(sim)
    THEN Merge(cs, ClusterOf(cs, ui.id), ClusterOf(cs, uj.id))
    ELSE cs

(* Line 89: Array.prototype.sort is stable; comparator b.length - a.length. *)
RECURSIVE InsertBySize(_, _)
InsertBySize(sorted, c) ==
    IF sorted = <<>> THEN <<c>>
    ELSE IF Len(Head(sorted)) >= Len(c)
         THEN <<Head(sorted)>> \o InsertBySize(Tail(sorted), c)
         ELSE <<c>> \o sorted

(* Mutant: the list is left in working order. *)
SortBySizeNone(cs, k) == SubSeq(cs, 1, k)

RECURSIVE SortBySize(_, _)
SortBySize(cs, k) ==
    IF k = 0 THEN <<>>
    ELSE InsertBySize(SortBySize(cs, k - 1), cs[k])

(* Lines 101-110: average similarity of member a to the other members. *)
RECURSIVE TotalSimilarity(_, _, _)
TotalSimilarity(c, a, b) ==
    IF b = 0 THEN FZero
    ELSE IF a = b THEN TotalSimilarity(c, a, b - 1)
         ELSE FAdd(TotalSimilarity(c, a, b - 1),
                   Similarities[<<c[a].embedding[1], c[b].embedding[1]>>].value)

AvgSimilarity(c, a) == FDivSmall(TotalSimilarity(c, a, Len(c)), Len(c) - 1)

(* Lines 96-116: the scan state after the first k members, as            *)
(* <<representativeIndex, maxAvgSimilarity>>.                              *)
RECURSIVE RepresentativeScan(_, _)
RepresentativeScan(c, k) ==
    IF k = 0 THEN <<1, FFromInt(-1)>>
    ELSE LET prev == RepresentativeScan(c, k - 1)
             avgSimilarity == AvgSimilarity(c, k)
         IN  IF FGt(avgSimilarity, prev[2]) THEN <<k, avgSimilarity>> ELSE prev

(* Mutant: representativeIndex is never updated. *)
RepresentativeIndexFirst(c) == 1

RepresentativeIndex(c) ==
    IF Len(c) > 1 THEN RepresentativeScan(c, Len(c))[1] ELSE 1

(* Mutant: the denominator counts every input statement. *)
PercentageOfAll(size, totalUnderstandings) ==
    FMulInt(FDivInt(size, Len(understandings)), 100)

(* Mutant: the fraction is not scaled to a percentage. *)
PercentageFraction(size, totalUnderstandings) ==
    FDivInt(size, totalUnderstandings)

(* Line 123. *)
Percentage(size, totalUnderstandings) ==
    FMulInt(FDivInt(size, totalUnderstandings), 100)

(* Mutant: cluster ids continue from the clusters an earlier invocation   *)
(* returned.                                                               *)
ToClusterCountingOn(c, index, totalUnderstandings) ==
    [id |-> index + (IF other.pc \in {"done", "scored"}
                     THEN Len(other.result) ELSE 0),
     understandings |-> c,
     representative_text |-> c[RepresentativeIndex(c)].understanding_text,
     size |-> Len(c),
     percentage |-> Percentage(Len(c), totalUnderstandings)]

(* Lines 118-124. *)
ToCluster(c, index, totalUnderstandings) ==
    [id |-> index,
     understandings |-> c,
     representative_text |-> c[RepresentativeIndex(c)].understanding_text,
     size |-> Len(c),
     percentage |-> Percentage(Len(c), totalUnderstandings)]

(* Lines 94-125: the map over the sorted list. *)
ToClusters(sorted, totalUnderstandings) ==
    [k \in 1..Len(sorted) |-> ToCluster(sorted[k], k, totalUnderstandings)]

(***************************************************************************)
(* calculateConsensus (clustering.ts 132-140)                              *)
(***************************************************************************)
(* Mutant: reads the last cluster. *)
calculateConsensusLast(cls) ==
    IF Len(cls) = 0 THEN FZero ELSE cls[Len(cls)].percentage

calculateConsensus(cls) ==
    IF Len(cls) = 0 THEN FZero ELSE cls[1].percentage

(***************************************************************************)
(* One invocation of clusterUnderstandings, then calculateConsensus.       *)
(***************************************************************************)
NoSimilarity == [kind |-> "none"]

(* No second invocation. *)
NoInvocation == [pc |-> "none"]

Init ==
    /\ understandings \in Inputs
    /\ pc = "start"
    /\ validUnderstandings = <<>>
    /\ clusters = <<>>
    /\ i = 0
    /\ j = 0
    /\ similarity = NoSimilarity
    /\ result = <<>>
    /\ consensus = FZero
    /\ other = NoInvocation
    /\ adrs = <<>>
    /\ posts = <<>>

(* Lines 48-55. *)
Start ==
    /\ pc = "start"
    /\ validUnderstandings' = Filter(understandings)
    /\ IF Len(validUnderstandings') = 0
       THEN /\ pc' = "done"
            /\ UNCHANGED <<clusters, i, j>>
       ELSE /\ pc' = "loop"
            /\ clusters' = Singletons(validUnderstandings')
            /\ i' = 1
            /\ j' = 2
    /\ understandings' = InputAfterFilter(understandings)
    /\ UNCHANGED <<similarity, result, consensus, other, adrs, posts>>

(* Lines 59-85: one iteration of the inner loop. *)
EvalPair ==
    /\ pc = "loop"
    /\ i <= Len(validUnderstandings)
    /\ j <= Len(validUnderstandings)
    /\ similarity' = Similarities[<<validUnderstandings[i].embedding[1],
                                    validUnderstandings[j].embedding[1]>>]
    /\ IF similarity'.kind = "throw"
       THEN /\ pc' = "threw"
            /\ UNCHANGED <<clusters, j>>
       ELSE /\ clusters' = MergePair(clusters, validUnderstandings[i],
                                     validUnderstandings[j], similarity'.value)
            /\ j' = j + 1
            /\ pc' = "loop"
    /\ UNCHANGED <<understandings, validUnderstandings, i, result, consensus,
                   other, adrs, posts>>

(* Line 58: the inner loop is over, the outer loop advances. *)
NextI ==
    /\ pc = "loop"
    /\ i <= Len(validUnderstandings)
    /\ j > Len(validUnderstandings)
    /\ i' = i + 1
    /\ j' = i + 2
    /\ UNCHANGED <<understandings, pc, validUnderstandings, clusters,
                   similarity, result, consensus, other, adrs, posts>>

(* Lines 88-125: the outer loop is over. *)
Finish ==
    /\ pc = "loop"
    /\ i > Len(validUnderstandings)
    /\ clusters' = SortBySize(clusters, Len(clusters))
    /\ result' = ToClusters(clusters', Len(validUnderstandings))
    /\ pc' = "done"
    /\ UNCHANGED <<understandings, validUnderstandings, i, j,
                   similarity, consensus, other, adrs, posts>>

(* The caller passes the returned list to calculateConsensus. *)
Consensus ==
    /\ pc = "done"
    /\ consensus' = calculateConsensus(result)
    /\ pc' = "scored"
    /\ UNCHANGED <<understandings, validUnderstandings, clusters, i, j,
                   similarity, result, other, adrs, posts>>

Next == Start \/ EvalPair \/ NextI \/ Finish \/ Consensus

Spec == Init /\ [][Next]_vars

(***************************************************************************)
(* Two invocations of clusterUnderstandings whose steps interleave.  The   *)
(* variables of the module hold the locals of the invocation that takes    *)
(* the next step, `other` holds the locals of the suspended one, and       *)
(* Switch hands the turn over.                                             *)
(***************************************************************************)
InterleavedEmbeddings == {Null, Some(VA), Some(VC), Some(VD)}

InterleavedInputs ==
    UNION {{[p \in 1..n |-> Understanding(p, es[p])] :
                es \in [1..n -> InterleavedEmbeddings]} : n \in 0..MaxInterleavedLen}

Reverse(us) == [p \in 1..Len(us) |-> us[Len(us) + 1 - p]]

(* The lists that hold the statements of us in any order. *)
Reorderings(us) ==
    {[p \in 1..Len(us) |-> us[f[p]]] :
        f \in {g \in [1..Len(us) -> 1..Len(us)] :
                   \A a, b \in 1..Len(us) : a # b => g[a] # g[b]}}

(* The input lists of a second caller that holds some of the same          *)
(* statements: the same list, the same statements in another order, a      *)
(* part of them, and a part of them followed by a statement of its own.    *)
OverlappingInputs(us) ==
    LET rest == IF us = <<>> THEN <<>> ELSE Tail(us)
    IN  {us, Reverse(us), rest} \cup Reorderings(us) \cup
        {rest \o <<Understanding(Len(us) + 1, e)>> : e \in InterleavedEmbeddings}

(* The locals of an invocation that has not taken a step. *)
NewInvocation(us) ==
    [understandings |-> us, pc |-> "start", validUnderstandings |-> <<>>,
     clusters |-> <<>>, i |-> 0, j |-> 0, similarity |-> NoSimilarity,
     result |-> <<>>, consensus |-> FZero]

(* The locals of the invocation that takes the next step. *)
Running ==
    [understandings |-> understandings, pc |-> pc,
     validUnderstandings |-> validUnderstandings, clusters |-> clusters,
     i |-> i, j |-> j, similarity |-> similarity, result |-> result,
     consensus |-> consensus]

(* Mutant: clusters is one array of the module, shared by the invocations. *)
ResumedSharedClusters(saved, running) ==
    [saved EXCEPT !.clusters = running.clusters]

(* What an invocation finds when it gets the turn back: validUnderstandings, *)
(* clusters, i, j and similarity are declared inside the function (lines   *)
(* 48, 55, 58-63), so it finds its own values whatever the other did.      *)
Resumed(saved, running) == saved

InitInterleaved ==
    /\ understandings \in InterleavedInputs
    /\ pc = "start"
    /\ validUnderstandings = <<>>
    /\ clusters = <<>>
    /\ i = 0
    /\ j = 0
    /\ similarity = NoSimilarity
    /\ result = <<>>
    /\ consensus = FZero
    /\ other \in {NewInvocation(us) : us \in OverlappingInputs(understandings)}
    /\ adrs = <<>>
    /\ posts = <<>>

Switch ==
    /\ other.pc # "none"
    /\ LET mine == Resumed(other, Running)
       IN  /\ understandings' = mine.understandings
           /\ pc' = mine.pc
           /\ validUnderstandings' = mine.validUnderstandings
           /\ clusters' = mine.clusters
           /\ i' = mine.i
           /\ j' = mine.j
           /\ similarity' = mine.similarity
           /\ result' = mine.result
           /\ consensus' = mine.consensus
    /\ other' = Running
    /\ UNCHANGED <<adrs, posts>>

NextInterleaved == Start \/ EvalPair \/ NextI \/ Finish \/ Consensus \/ Switch

SpecInterleaved == InitInterleaved /\ [][NextInterleaved]_vars

(***************************************************************************)
(* One invocation on a longer list of statements that all have a usable    *)
(* embedding: some approaches are held by one developer each, one is held  *)
(* by any number of them.                                                  *)
(***************************************************************************)
OrderingInputs ==
    UNION {{[p \in 1..n |-> Understanding(p, Some(vs[p]))] :
                vs \in {ws \in [1..n -> RareVectors \cup {CommonVector}] :
                           \A a, b \in 1..n :
                               (a # b /\ ws[a] \in RareVectors) => ws[a] # ws[b]}} :
           n \in 0..MaxOrderingLen}

InitOrdering ==
    /\ understandings \in OrderingInputs
    /\ pc = "start"
    /\ validUnderstandings = <<>>
    /\ clusters = <<>>
    /\ i = 0
    /\ j = 0
    /\ similarity = NoSimilarity
    /\ result = <<>>
    /\ consensus = FZero
    /\ other = NoInvocation
    /\ adrs = <<>>
    /\ posts = <<>>

SpecOrdering == InitOrdering /\ [][Next]_vars

(***************************************************************************)
(* Properties.  They are stated on the input list and the returned list,   *)
(* with similarity taken in exact arithmetic.                              *)
(***************************************************************************)
HasReturned == pc \in {"done", "scored"}

(* The embedding is neither null nor empty. *)
Usable(u) == u.embedding # <<>> /\ u.embedding[1] # <<>>

UsablePositions == {p \in 1..Len(understandings) : Usable(understandings[p])}

Members(k) == {result[k].understandings[m] : m \in 1..Len(result[k].understandings)}

ClustersWith(u) == {k \in 1..Len(result) : u \in Members(k)}

SameCluster(u, v) == \E k \in 1..Len(result) : u \in Members(k) /\ v \in Members(k)

RECURSIVE Dot(_, _, _)
Dot(a, b, k) == IF k = 0 THEN 0 ELSE Dot(a, b, k - 1) + a[k] * b[k]

(* dot / (|a| |b|) >= 3/4, without square roots or division. *)
SimilarAtLeast075(a, b) ==
    /\ Len(a) = Len(b)
    /\ Dot(a, a, Len(a)) > 0
    /\ Dot(b, b, Len(b)) > 0
    /\ Dot(a, b, Len(a)) >= 0
    /\ 16 * Dot(a, b, Len(a)) * Dot(a, b, Len(a))
           >= 9 * Dot(a, a, Len(a)) * Dot(b, b, Len(b))

SimilarExactly075(a, b) ==
    /\ SimilarAtLeast075(a, b)
    /\ 16 * Dot(a, b, Len(a)) * Dot(a, b, Len(a))
           = 9 * Dot(a, a, Len(a)) * Dot(b, b, Len(b))

(* An edge of the similarity graph on the usable statements. *)
Edge(p, q) ==
    /\ p # q
    /\ SimilarAtLeast075(understandings[p].embedding[1], understandings[q].embedding[1])

RECURSIVE Reach(_)
Reach(S) ==
    LET more == S \cup {q \in UsablePositions : \E p \in S : Edge(p, q)}
    IN  IF more = S THEN S ELSE Reach(more)

(* The connected component of p, as a set of statements. *)
Component(p) == {understandings[q] : q \in Reach({p})}

(* C1: once clusterUnderstandings has returned, every statement with a     *)
(* non-null, non-empty embedding is a member of exactly one returned       *)
(* cluster, and every other statement is a member of none.                 *)
C1_ExactlyOneCluster ==
    HasReturned =>
        \A p \in 1..Len(understandings) :
            IF Usable(understandings[p])
            THEN Cardinality(ClustersWith(understandings[p])) = 1
            ELSE ClustersWith(understandings[p]) = {}

C1_Witness ==
    /\ pc = "done"
    /\ \E p, q \in 1..Len(understandings) :
          /\ Usable(understandings[p])
          /\ ~Usable(understandings[q])
    /\ \E k \in 1..Len(result) : result[k].size >= 2

(* C2: the returned clusters are exactly the connected components of the   *)
(* graph on the usable statements whose edges are the pairs with cosine    *)
(* similarity >= 0.75, the threshold included.                             *)
C2_ConnectedComponents ==
    HasReturned =>
        /\ {Members(k) : k \in 1..Len(result)} = {Component(p) : p \in UsablePositions}
        /\ Len(result) = Cardinality({Component(p) : p \in UsablePositions})

C2_Witness ==
    /\ pc = "done"
    /\ \E p, q \in UsablePositions :
          /\ p # q
          /\ SimilarExactly075(understandings[p].embedding[1],
                               understandings[q].embedding[1])
          /\ SameCluster(understandings[p], understandings[q])
    /\ \E p, q \in UsablePositions :
          /\ p # q
          /\ ~Edge(p, q)
          /\ SameCluster(understandings[p], understandings[q])

RECURSIVE SumSizes(_)
SumSizes(k) == IF k = 0 THEN 0 ELSE SumSizes(k - 1) + result[k].size

(* The least exponent of the returned percentages. *)
RECURSIVE MinExp(_)
MinExp(k) ==
    IF k = 1 THEN result[1].percentage.exp
    ELSE LET e == MinExp(k - 1)
         IN  IF result[k].percentage.exp < e THEN result[k].percentage.exp ELSE e

(* The exact sum of the first k percentages, in units of 2^e. *)
RECURSIVE SumPercentages(_, _)
SumPercentages(k, e) ==
    IF k = 0 THEN <<>>
    ELSE BAdd(SumPercentages(k - 1, e),
              BShl(result[k].percentage.man, result[k].percentage.exp - e))

(* 100 in units of 2^e, for e <= 0. *)
Hundred(e) == BShl(BFromInt(100), -e)

(* 2^-40 in units of 2^e, for e <= -40. *)
Tolerance(e) == BShl(<<1>>, (-e) - 40)

(* C3 as claimed: the sizes sum to the number of usable statements and the *)
(* returned percentages sum to 100 whenever a statement is usable.         *)
C3_SumsExact ==
    HasReturned =>
        /\ SumSizes(Len(result)) = Cardinality(UsablePositions)
        /\ UsablePositions # {} =>
              LET e == MinExp(Len(result))
              IN  SumPercentages(Len(result), e) = Hundred(e)

(* C3, amended: the sizes sum to the number of usable statements, and the  *)
(* returned percentages sum to 100 up to floating-point rounding: their    *)
(* sum is within 2^-40 of 100.                                             *)
C3_SumsWithinRounding ==
    HasReturned =>
        /\ SumSizes(Len(result)) = Cardinality(UsablePositions)
        /\ UsablePositions # {} =>
              LET e == MinExp(Len(result))
                  sum == SumPercentages(Len(result), e)
              IN  /\ e <= -40
                  /\ BCmp(BAdd(sum, Tolerance(e)), Hundred(e)) >= 0
                  /\ BCmp(BAdd(Hundred(e), Tolerance(e)), sum) >= 0

C3_Witness ==
    /\ pc = "done"
    /\ Len(result) >= 2
    /\ SumSizes(Len(result)) = Len(understandings)
    /\ LET e == MinExp(Len(result))
       IN  SumPercentages(Len(result), e) # Hundred(e)

(* C4: usable statements A, B, C with sim(A,B) >= 0.75 and sim(B,C) >=     *)
(* 0.75 are returned in one cluster, wherever they stand in the input.     *)
C4_TransitiveMerge ==
    HasReturned =>
        \A a, b, c \in UsablePositions :
            (Edge(a, b) /\ Edge(b, c)) =>
                /\ SameCluster(understandings[a], understandings[b])
                /\ SameCluster(understandings[b], understandings[c])
                /\ SameCluster(understandings[a], understandings[c])

C4_Witness ==
    /\ pc = "done"
    /\ \E a, b, c \in UsablePositions :
          /\ a < c /\ c < b
          /\ Edge(a, b) /\ Edge(b, c) /\ ~Edge(a, c)
          /\ SameCluster(understandings[a], understandings[c])

(* C5: the returned list is in non-increasing order of cluster size and    *)
(* the cluster at position k has id k.                                     *)
C5_SortedAndRanked ==
    HasReturned =>
        \A k \in 1..Len(result) :
            /\ result[k].id = k
            /\ result[k].size = Len(result[k].understandings)
            /\ k < Len(result) => result[k].size >= result[k + 1].size

(* The largest cluster was built behind a smaller one in the working list. *)
C5_Witness ==
    /\ pc = "done"
    /\ Len(result) >= 2
    /\ result[1].size > result[2].size
    /\ result[1].understandings[1].id > result[2].understandings[1].id

MaxSize == CHOOSE n \in {result[k].size : k \in 1..Len(result)} :
               \A k \in 1..Len(result) : result[k].size <= n

(* C6: calculateConsensus gives 0 for the empty list and otherwise the     *)
(* first cluster's percentage, which on the output of                      *)
(* clusterUnderstandings is the largest percentage:                        *)
(* (largest size / number of usable statements) * 100.                     *)
C6_ConsensusIsLargest ==
    pc = "scored" =>
        IF Len(result) = 0
        THEN consensus = FZero
        ELSE /\ consensus = result[1].percentage
             /\ \A k \in 1..Len(result) : FGe(consensus, result[k].percentage)
             /\ consensus = FMulInt(FDivInt(MaxSize, Cardinality(UsablePositions)), 100)

C6_Witness ==
    /\ pc = "scored"
    /\ Len(result) >= 2
    /\ FGt(consensus, result[Len(result)].percentage)

(* C7: each percentage is (member count / number of usable statements) *   *)
(* 100; statements without a usable embedding are no members and are not   *)
(* counted in the denominator.                                             *)
C7_PercentageOfUsable ==
    HasReturned =>
        \A k \in 1..Len(result) :
            /\ \A u \in Members(k) : Usable(u)
            /\ result[k].percentage =
                   FMulInt(FDivInt(Len(result[k].understandings),
                                   Cardinality(UsablePositions)), 100)

C7_Witness ==
    /\ pc = "done"
    /\ Cardinality(UsablePositions) >= 2
    /\ Cardinality(UsablePositions) < Len(understandings)
    /\ Len(result) >= 1

(* |va| * |vb|, an integer for any two vectors that share a cluster in the *)
(* model.                                                                  *)
NormProduct(va, vb) ==
    LET n == Dot(va, va, Len(va)) * Dot(vb, vb, Len(vb))
    IN  CHOOSE r \in 0..n : r * r = n

(* The sum of the exact similarities of member a to the other members of   *)
(* c, as <<numerator, denominator>>.                                       *)

RECURSIVE ExactTotal(_, _, _)
ExactTotal(c, a, b) ==
    IF b = 0 THEN <<0, 1>>
    ELSE LET rest == ExactTotal(c, a, b - 1)
             va == c[a].embedding[1]
             vb == c[b].embedding[1]
             den == NormProduct(va, vb)
         IN  IF a = b \/ den = 0 THEN rest
             ELSE <<rest[1] * den + Dot(va, vb, Len(va)) * rest[2], rest[2] * den>>

(* Member a's average similarity to the others is strictly higher than b's. *)
HigherAverage(c, a, b) ==
    LET x == ExactTotal(c, a, Len(c))
        y == ExactTotal(c, b, Len(c))
    IN  x[1] * y[2] > y[1] * x[2]

(* C8: the representative text of a cluster with several members is the   *)
(* text of a member over which no other member has a strictly higher       *)
(* average similarity to the rest of the cluster; a singleton cluster has  *)
(* the text of its sole member.                                            *)
C8_Representative ==
    HasReturned =>
        \A k \in 1..Len(result) :
            LET c == result[k].understandings
            IN  \E m \in 1..Len(c) :
                    /\ result[k].representative_text = c[m].understanding_text
                    /\ \A o \in 1..Len(c) : ~HigherAverage(c, o, m)

(* A cluster whose first member is not its representative. *)
C8_Witness ==
    /\ pc = "done"
    /\ \E k \in 1..Len(result) :
          LET c == result[k].understandings
          IN  /\ Len(c) >= 3
              /\ result[k].representative_text # c[1].understanding_text
              /\ \E o \in 1..Len(c) : HigherAverage(c, o, 1)

(* C9: cosineSimilarity on two vectors of different lengths throws: the    *)
(* pair evaluation of the merge loop then yields no number and the call    *)
(* ends in the error, with the working list untouched.                     *)
C9_MismatchThrows ==
    [][(/\ pc = "loop"
        /\ i <= Len(validUnderstandings)
        /\ j <= Len(validUnderstandings)
        /\ Len(validUnderstandings[i].embedding[1])
               # Len(validUnderstandings[j].embedding[1]))
       => (/\ similarity' = Threw
           /\ pc' = "threw"
           /\ clusters' = clusters)]_vars

C9_Witness ==
    /\ pc = "threw"
    /\ similarity = Threw
    /\ Len(validUnderstandings[i].embedding[1])
           # Len(validUnderstandings[j].embedding[1])

(* The length every well-formed embedding of the model has. *)
EmbeddingLength == Len(VA)

Malformed(u) == Usable(u) /\ Len(u.embedding[1]) # EmbeddingLength

(* C10 as claimed: a statement whose embedding has another length than the *)
(* others is left out of every cluster, and the call returns clusters for  *)
(* the rest instead of ending in an error.                                 *)
C10_MalformedExcluded ==
    /\ pc # "threw"
    /\ HasReturned =>
          \A k \in 1..Len(result) : \A u \in Members(k) : ~Malformed(u)

(***************************************************************************)
(* The callers that report a module's consensus.  Each filters the         *)
(* module's statements itself, calls clusterUnderstandings and             *)
(* calculateConsensus when it finds at least two, and reports a fixed      *)
(* value otherwise.  `us` is the module's statements and `score` the value *)
(* calculateConsensus returned for them.                                   *)
(***************************************************************************)
RECURSIVE BToInt(_)
BToInt(x) == IF x = <<>> THEN 0 ELSE Head(x) + LimbBase * BToInt(Tail(x))

(* Math.round(x) for x >= 0: the nearest integer, a half rounding up. *)
MathRound(x) ==
    IF x.man = <<>> THEN 0
    ELSE IF x.exp >= 0 THEN BToInt(BShl(x.man, x.exp))
    ELSE LET s == -x.exp
             half == BCmp(BLow(x.man, s), BShl(<<1>>, s - 1)) >= 0
         IN  BToInt(BShr(x.man, s)) + (IF half THEN 1 ELSE 0)

(* consensus/route.ts line 108: Math.round(consensusPercentage * 10) / 10 *)
RoundToTenth(x) == FDivInt(MathRound(FMulInt(x, 10)), 10)

(* The query of the routes: .not('embedding', 'is', null) *)
NotNullEmbedding(u) == u.embedding # Null

(* GET /api/consensus, lines 30-108: the consensus_percentage it reports. *)
ConsensusRouteGET(us, score) ==
    LET fetched == SelectSeq(us, NotNullEmbedding)
    IN  IF Len(fetched) < 2 THEN FZero
        ELSE IF Len(Filter(fetched)) < 2 THEN FZero
        ELSE RoundToTenth(score)

(* POST /api/reports/generate, lines 93-113: the consensus of one module;  *)
(* its filter keeps every truthy embedding, an empty array included.       *)
ReportModuleConsensus(us, score) ==
    IF Len(SelectSeq(us, NotNullEmbedding)) >= 2 THEN score
    ELSE FFromInt(100)

(* C11 as claimed: with fewer than two usable statements the call does not *)
(* end in an error, calculateConsensus gives 0, and the consensus route    *)
(* and the report generator both report 0 for the module.                  *)
C11_InsufficientDataIsZero ==
    Cardinality(UsablePositions) < 2 =>
        /\ pc # "threw"
        /\ pc = "scored" =>
              /\ consensus = FZero
              /\ ConsensusRouteGET(understandings, consensus) = FZero
              /\ ReportModuleConsensus(understandings, consensus) = FZero

(* C12: when no input statement has a usable embedding, the empty list     *)
(* among the inputs, clusterUnderstandings returns the empty list and does *)
(* not end in an error.                                                    *)
C12_NothingUsableReturnsEmpty ==
    (UsablePositions = {} /\ pc # "start") =>
        /\ HasReturned
        /\ result = <<>>

C12_Witness ==
    /\ pc = "done"
    /\ result = <<>>
    /\ UsablePositions = {}
    /\ \E p, q \in 1..Len(understandings) :
          /\ understandings[p].embedding = Null
          /\ understandings[q].embedding = Some(<<>>)

IsZeroVector(v) == \A k \in 1..Len(v) : v[k] = 0

(* The merge loop is about to evaluate the pair (i, j). *)
PairPending ==
    /\ pc = "loop"
    /\ i <= Len(validUnderstandings)
    /\ j <= Len(validUnderstandings)

(* The merge loop has just evaluated the pair (i, j - 1). *)
PairEvaluated ==
    /\ pc = "loop"
    /\ similarity.kind = "return"
    /\ j - 1 > i

(* C13: every evaluation of cosineSimilarity on two vectors of the same    *)
(* length of which at least one has only zero components returns the       *)
(* number 0: it does not throw and does not return a non-number.           *)
C13_ZeroMagnitudeGivesZero ==
    [][(/\ PairPending
        /\ Len(validUnderstandings[i].embedding[1])
               = Len(validUnderstandings[j].embedding[1])
        /\ \/ IsZeroVector(validUnderstandings[i].embedding[1])
           \/ IsZeroVector(validUnderstandings[j].embedding[1]))
       => (/\ similarity' = Returned(FZero)
           /\ pc' = "loop")]_vars

C13_Witness ==
    /\ PairEvaluated
    /\ similarity = Returned(FZero)
    /\ IsZeroVector(validUnderstandings[i].embedding[1])
    /\ IsZeroVector(validUnderstandings[j - 1].embedding[1])

(* C14: for any two embeddings of the same length that the merge loop      *)
(* compares, cosineSimilarity gives the same result with its arguments in  *)
(* either order.                                                           *)
C14_Symmetric ==
    \A p, q \in 1..Len(validUnderstandings) :
        LET a == validUnderstandings[p].embedding[1]
            b == validUnderstandings[q].embedding[1]
        IN  Len(a) = Len(b) => Similarities[<<a, b>>] = Similarities[<<b, a>>]

C14_Witness ==
    /\ PairEvaluated
    /\ LET a == validUnderstandings[i].embedding[1]
           b == validUnderstandings[j - 1].embedding[1]
       IN  /\ a # b
           /\ SumProducts(a, a, Len(a)) # SumProducts(b, b, Len(b))
           /\ similarity = Similarities[<<b, a>>]
           /\ FGt(similarity.value, FZero)
           /\ FGt(FFromInt(1), similarity.value)

(* C15 as claimed: cosineSimilarity of a non-zero embedding with itself is *)
(* exactly 1, of the zero vector with itself is 0, and two statements with *)
(* the same non-zero embedding meet the threshold.                         *)
C15_SelfSimilarityIsOne ==
    \A p, q \in 1..Len(validUnderstandings) :
        LET v == validUnderstandings[p].embedding[1]
        IN  validUnderstandings[q].embedding[1] = v =>
                IF IsZeroVector(v)
                THEN Similarities[<<v, v>>] = Returned(FZero)
                ELSE /\ Similarities[<<v, v>>] = Returned(FFromInt(1))
                     /\ MeetsThreshold(Similarities[<<v, v>>].value)

(* |x - 1| <= 2^-50, a distance that the roundings of the two square     *)
(* roots, of their product and of the quotient stay within.                *)
NearOne(x) ==
    LET one == BShl(<<1>>, 50)
    IN  /\ FGe(x, RoundBig(FALSE, BSub(one, <<1>>), -50))
        /\ FGe(RoundBig(FALSE, BAdd(one, <<1>>), -50), x)

(* C15, amended: cosineSimilarity of a non-zero embedding with itself is   *)
(* within 2^-50 of 1 (not always exactly 1), of the zero vector with       *)
(* itself is exactly 0, and two statements with the same non-zero          *)
(* embedding meet the threshold and are returned in the same cluster.      *)
C15_SelfSimilarityNearOne ==
    \A p, q \in 1..Len(validUnderstandings) :
        LET v == validUnderstandings[p].embedding[1]
        IN  validUnderstandings[q].embedding[1] = v =>
                IF IsZeroVector(v)
                THEN Similarities[<<v, v>>] = Returned(FZero)
                ELSE /\ Similarities[<<v, v>>].kind = "return"
                     /\ NearOne(Similarities[<<v, v>>].value)
                     /\ MeetsThreshold(Similarities[<<v, v>>].value)
                     /\ HasReturned =>
                           SameCluster(validUnderstandings[p], validUnderstandings[q])

C15_Witness ==
    /\ PairEvaluated
    /\ validUnderstandings[i].embedding = validUnderstandings[j - 1].embedding
    /\ ~IsZeroVector(validUnderstandings[i].embedding[1])
    /\ similarity.value # FFromInt(1)
    /\ NearOne(similarity.value)
    /\ ClusterOf(clusters, validUnderstandings[i].id)
           = ClusterOf(clusters, validUnderstandings[j - 1].id)

(* Every two usable statements have a similarity of at least 0.75. *)
AllPairsSimilar == \A p, q \in UsablePositions : p # q => Edge(p, q)

(* C16: when there is a usable statement and every two usable statements   *)
(* have a similarity of at least 0.75, clusterUnderstandings returns one   *)
(* cluster that holds all of them and calculateConsensus gives 100.        *)
C16_AllSimilarOneCluster ==
    (pc = "scored" /\ UsablePositions # {} /\ AllPairsSimilar) =>
        /\ Len(result) = 1
        /\ Members(1) = {understandings[p] : p \in UsablePositions}
        /\ result[1].size = Cardinality(UsablePositions)
        /\ consensus = FFromInt(100)

C16_Witness ==
    /\ pc = "scored"
    /\ Cardinality(UsablePositions) = 3
    /\ AllPairsSimilar
    /\ \A p, q \in UsablePositions :
          p # q => understandings[p].embedding # understandings[q].embedding
    /\ consensus = FFromInt(100)

(* C17: two usable statements with a similarity below 0.75, when no other  *)
(* statement is usable, are returned as two clusters of one member and     *)
(* percentage 50 each, with consensus 50; and whatever the input, two      *)
(* statements that no chain of pairs with similarity >= 0.75 connects are  *)
(* not members of the same returned cluster.                               *)
C17_DissimilarStaySeparate ==
    /\ \A p, q \in UsablePositions :
          (pc = "scored" /\ UsablePositions = {p, q} /\ p # q /\ ~Edge(p, q)) =>
              /\ Len(result) = 2
              /\ \A k \in 1..2 :
                    /\ result[k].size = 1
                    /\ Len(result[k].understandings) = 1
                    /\ result[k].percentage = FFromInt(50)
              /\ Members(1) \cup Members(2) = {understandings[p], understandings[q]}
              /\ consensus = FFromInt(50)
    /\ HasReturned =>
          \A p, q \in UsablePositions :
              q \notin Reach({p}) =>
                  ~SameCluster(understandings[p], understandings[q])

C17_Witness ==
    /\ pc = "scored"
    /\ Len(understandings) = 3
    /\ Cardinality(UsablePositions) = 2
    /\ \A p, q \in UsablePositions : ~Edge(p, q)
    /\ FGt(similarity.value, FZero)
    /\ Len(result) = 2
    /\ consensus = FFromInt(50)

(* C18: no step of clusterUnderstandings changes the caller's input list:  *)
(* it keeps its statements, their order and each statement's id, text and  *)
(* embedding, whether the call goes on to return or to throw.              *)
C18_InputUnchanged == [][understandings' = understandings]_vars

C18_Witness ==
    /\ pc = "done"
    /\ Len(validUnderstandings) < Len(understandings)
    /\ Len(clusters) < Len(validUnderstandings)
    /\ result # <<>>

(***************************************************************************)
(* Claims about two invocations (SpecInterleaved).                         *)
(***************************************************************************)
(* Lines 58-86 run to their end without interruption, from the pair        *)
(* (a, b) and the cluster list cs.                                         *)
RECURSIVE MergeLoopAlone(_, _, _, _)
MergeLoopAlone(valid, cs, a, b) ==
    IF a > Len(valid) THEN Returned(cs)
    ELSE IF b > Len(valid) THEN MergeLoopAlone(valid, cs, a + 1, a + 2)
    ELSE LET sim == Similarities[<<valid[a].embedding[1], valid[b].embedding[1]>>]
         IN  IF sim.kind = "throw" THEN Threw
             ELSE CHOOSE r \in
                      { MergeLoopAlone(valid, merged, a, b + 1) :
                          merged \in {MergePair(cs, valid[a], valid[b], sim.value)} } :
                      TRUE

(* clusterUnderstandings(us) run alone, from entry to return or throw. *)
ClusterAlone(us) ==
    LET valid == Filter(us)
        merged == MergeLoopAlone(valid, Singletons(valid), 1, 2)
    IN  IF Len(valid) = 0 THEN Returned(<<>>)
        ELSE IF merged.kind = "throw" THEN Threw
        ELSE Returned(ToClusters(SortBySize(merged.value, Len(merged.value)),
                                 Len(valid)))

(* An invocation that has ended has ended as it does when run alone. *)
EndsAsAlone(inv) ==
    /\ inv.pc = "threw" => ClusterAlone(inv.understandings) = Threw
    /\ inv.pc \in {"done", "scored"} =>
          ClusterAlone(inv.understandings) = Returned(inv.result)

(* C19: of two invocations whose steps interleave in any order, on lists   *)
(* that share statements, each ends with the result it has when run alone. *)
C19_InterleavingIsolated == EndsAsAlone(Running) /\ EndsAsAlone(other)

(* Both invocations are in the middle of their merge loops, on different   *)
(* lists that share a statement, and their cluster lists differ.           *)
C19_Witness ==
    /\ PairEvaluated
    /\ other.pc = "loop"
    /\ other.j - 1 > other.i
    /\ other.understandings # understandings
    /\ \E p \in 1..Len(understandings) : \E q \in 1..Len(other.understandings) :
          understandings[p] = other.understandings[q]
    /\ Len(clusters) # Len(other.clusters)

MemberSets(cls) ==
    {{cls[k].understandings[m] : m \in 1..Len(cls[k].understandings)} :
        k \in 1..Len(cls)}

PositionOf(u) == CHOOSE p \in 1..Len(understandings) : understandings[p] = u

(* The input position of the earliest member of returned cluster k. *)
EarliestPosition(k) ==
    CHOOSE p \in {PositionOf(u) : u \in Members(k)} :
        \A u \in Members(k) : p <= PositionOf(u)

(* C22 as claimed: of two returned clusters with the same member count,    *)
(* the one whose earliest member comes earlier in the input list has the   *)
(* smaller id.                                                             *)
C22_TiesRankedByInputOrder ==
    HasReturned =>
        \A k, l \in 1..Len(result) :
            (/\ result[k].size = result[l].size
             /\ EarliestPosition(k) < EarliestPosition(l)) =>
                result[k].id < result[l].id

(* The members of a member list whose computed average similarity to the   *)
(* other members is the highest, as indices into the list.                 *)
BestMembers(c) ==
    {m \in 1..Len(c) :
        \A n \in 1..Len(c) : FGe(AvgSimilarity(c, m), AvgSimilarity(c, n))}

(* C23 as claimed: when several members of a returned cluster share the    *)
(* highest average similarity, the representative text is that of the one  *)
(* among them that comes first in the input list.                          *)
C23_TieGoesToEarliestInput ==
    HasReturned =>
        \A k \in 1..Len(result) :
            LET c == result[k].understandings
                first == CHOOSE m \in BestMembers(c) :
                             \A n \in BestMembers(c) :
                                 PositionOf(c[m]) <= PositionOf(c[n])
            IN  (Len(c) > 1 /\ Cardinality(BestMembers(c)) > 1) =>
                    result[k].representative_text = c[first].understanding_text

(***************************************************************************)
(* POST /api/adr/generate (adr/generate/route.ts).  The requests are for   *)
(* one module of one project, so each clusters the same statements: the    *)
(* clustering runs once, stepwise, in the variables above, and each        *)
(* request takes the consensus from it.  A request then reads the highest  *)
(* adr_number of the project, waits for the generated text, and inserts    *)
(* its ADR; what happens between two awaits is one step.                   *)
(***************************************************************************)
(* n statements with embedding v at the input positions after `from`. *)
Block(v, n, from) == [p \in 1..n |-> Understanding(from + p, Some(v))]

(* Modules whose developers hold up to three approaches. *)
AdrInputs ==
    {Block(VA, n[1], 0) \o Block(VE, n[2], n[1]) \o Block(VC, n[3], n[1] + n[2]) :
        n \in {m \in (0..MaxAdrLen) \X (0..MaxAdrLen) \X (0..MaxAdrLen) :
                   m[1] + m[2] + m[3] <= MaxAdrLen}}

NewPost ==
    [pc |-> "start", consensusPercentage |-> FZero, nextADRNumber |-> 0,
     status |-> "none"]

(* Lines 106-109. *)
AdrStatus(consensusPercentage) ==
    IF FGt(consensusPercentage, FFromInt(70)) THEN "Accepted"
    ELSE IF FGe(consensusPercentage, FFromInt(50)) THEN "Proposed"
    ELSE "Under Discussion"

(* Lines 82-91: the highest adr_number of the project plus 1, or 1. *)
NextADRNumber(table) ==
    IF Len(table) > 0
    THEN (CHOOSE n \in {table[k].adr_number : k \in 1..Len(table)} :
              \A k \in 1..Len(table) : table[k].adr_number <= n) + 1
    ELSE 1

InitADR ==
    /\ understandings \in AdrInputs
    /\ pc = "start"
    /\ validUnderstandings = <<>>
    /\ clusters = <<>>
    /\ i = 0
    /\ j = 0
    /\ similarity = NoSimilarity
    /\ result = <<>>
    /\ consensus = FZero
    /\ other = NoInvocation
    /\ adrs = <<>>
    /\ posts = [r \in 1..MaxPosts |-> NewPost]

(* Lines 38-79: the statements are fetched; none gives a 400 response,     *)
(* otherwise they are clustered and the consensus is calculated.           *)
PostCluster ==
    \E r \in DOMAIN posts :
        /\ posts[r].pc = "start"
        /\ pc = "scored"
        /\ posts' = IF Len(SelectSeq(understandings, NotNullEmbedding)) = 0
                    THEN [posts EXCEPT ![r].pc = "rejected"]
                    ELSE [posts EXCEPT ![r].pc = "clustered",
                                       ![r].consensusPercentage = consensus]
        /\ UNCHANGED <<understandings, pc, validUnderstandings, clusters, i, j,
                       similarity, result, consensus, other, adrs>>

(* Lines 81-109: the answer of the query for the highest adr_number        *)
(* arrives; the number and the status are set and the text is requested.   *)
PostNumber ==
    \E r \in DOMAIN posts :
        /\ posts[r].pc = "clustered"
        /\ posts' = [posts EXCEPT
                        ![r].pc = "numbered",
                        ![r].nextADRNumber = NextADRNumber(adrs),
                        ![r].status = AdrStatus(posts[r].consensusPercentage)]
        /\ UNCHANGED <<understandings, pc, validUnderstandings, clusters, i, j,
                       similarity, result, consensus, other, adrs>>

(* Lines 178-216: the text has arrived and the ADR is inserted; a failed   *)
(* insert is logged and the response is sent all the same.                 *)
PostSave ==
    \E r \in DOMAIN posts : \E saved \in BOOLEAN :
        /\ posts[r].pc = "numbered"
        /\ adrs' = IF saved
                   THEN Append(adrs,
                               [adr_number |-> posts[r].nextADRNumber,
                                status |-> posts[r].status,
                                consensus_percentage |->
                                    MathRound(posts[r].consensusPercentage)])
                   ELSE adrs
        /\ posts' = [posts EXCEPT ![r].pc = "responded"]
        /\ UNCHANGED <<understandings, pc, validUnderstandings, clusters, i, j,
                       similarity, result, consensus, other>>

NextADR ==
    \/ Start \/ EvalPair \/ NextI \/ Finish \/ Consensus
    \/ PostCluster \/ PostNumber \/ PostSave

SpecADR == InitADR /\ [][NextADR]_vars

(* The status the policy gives a consensus percentage. *)
ClaimedStatus(consensusPercentage) ==
    IF FGe(consensusPercentage, FFromInt(70)) THEN "Accepted"
    ELSE IF FGe(consensusPercentage, FFromInt(50)) THEN "Proposed"
    ELSE "Under Discussion"

(* C24 as claimed: the status of an ADR is 'Accepted' for a consensus of   *)
(* at least 70, 'Proposed' for one of at least 50 and below 70, and 'Under *)
(* Discussion' below 50; a consensus of exactly 70 gives 'Accepted'.       *)
C24_StatusThresholds ==
    \A r \in DOMAIN posts :
        posts[r].pc \in {"numbered", "responded"} =>
            posts[r].status = ClaimedStatus(posts[r].consensusPercentage)

(* C30 as claimed: whatever the interleaving of the requests for ADRs of   *)
(* one project, no two saved ADRs of the project carry the same            *)
(* adr_number.                                                             *)
C30_AdrNumbersUnique ==
    \A a, b \in 1..Len(adrs) :
        a # b => adrs[a].adr_number # adrs[b].adr_number

(***************************************************************************)
(* The merge loop under fair scheduling: the loops of lines 58-86 are      *)
(* synchronous code, so an invocation that can take a step of them takes   *)
(* it.                                                                     *)
(***************************************************************************)
SpecLoop ==
    Init /\ [][Next]_vars /\ WF_vars(Start) /\ WF_vars(EvalPair) /\ WF_vars(NextI)

(* The unordered pairs of positions of validUnderstandings. *)
ValidPairs ==
    {pr \in (1..Len(validUnderstandings)) \X (1..Len(validUnderstandings)) :
        pr[1] < pr[2]}

(* The pairs the loops have been through when the counters are ii and jj. *)
EvaluatedPairs(ii, jj) ==
    {pr \in ValidPairs : pr[1] < ii \/ (pr[1] = ii /\ pr[2] < jj)}

(* An evaluated pair of positions whose similarity is at least 0.75. *)
EvaluatedLink(a, b) ==
    /\ (<<a, b>> \in EvaluatedPairs(i, j) \/ <<b, a>> \in EvaluatedPairs(i, j))
    /\ SimilarAtLeast075(validUnderstandings[a].embedding[1],
                         validUnderstandings[b].embedding[1])

RECURSIVE LinkedTo(_)
LinkedTo(S) ==
    LET more == S \cup {b \in 1..Len(validUnderstandings) :
                            \E a \in S : EvaluatedLink(a, b)}
    IN  IF more = S THEN S ELSE LinkedTo(more)

(* The places of the working list. *)
Slots == {s \in (1..Len(clusters)) \X (1..Len(validUnderstandings)) :
             s[2] <= Len(clusters[s[1]])}

(* The working list is a partition of the valid statements. *)
WorkingPartition ==
    /\ \A k \in 1..Len(clusters) : Len(clusters[k]) > 0
    /\ \A k \in 1..Len(clusters) : Len(clusters[k]) <= Len(validUnderstandings)
    /\ \A s \in Slots :
           \E p \in 1..Len(validUnderstandings) :
               clusters[s[1]][s[2]] = validUnderstandings[p]
    /\ \A p \in 1..Len(validUnderstandings) :
           Cardinality({s \in Slots : clusters[s[1]][s[2]] = validUnderstandings[p]}) = 1

(* Statements share a working cluster only through evaluated links. *)
MergedOnlyThroughLinks ==
    \A a, b \in 1..Len(validUnderstandings) :
        (ClusterOf(clusters, validUnderstandings[a].id)
             = ClusterOf(clusters, validUnderstandings[b].id))
            => b \in LinkedTo({a})

LoopInvariant == pc = "loop" => (WorkingPartition /\ MergedOnlyThroughLinks)

(* The loops have ended with every pair evaluated. *)
LoopCompleted ==
    /\ \/ pc = "loop" /\ i > Len(validUnderstandings)
       \/ pc = "done"
    /\ EvaluatedPairs(i, j) = ValidPairs

(* What one step does to the set of evaluated pairs. *)
LoopStep ==
    /\ (pc = "start" /\ pc' = "loop") => EvaluatedPairs(i', j') = {}
    /\ (pc = "loop" /\ pc' = "loop" /\ i' = i) =>
           /\ <<i, j>> \in ValidPairs
           /\ <<i, j>> \notin EvaluatedPairs(i, j)
           /\ EvaluatedPairs(i', j') = EvaluatedPairs(i, j) \cup {<<i, j>>}
    /\ (pc = "loop" /\ pc' = "loop" /\ i' # i) =>
           EvaluatedPairs(i', j') = EvaluatedPairs(i, j)
    /\ (pc = "loop" /\ pc' = "done") => EvaluatedPairs(i, j) = ValidPairs
    /\ (pc = "loop" /\ pc' = "threw") =>
           /\ <<i, j>> \in ValidPairs \ EvaluatedPairs(i, j)
           /\ Len(validUnderstandings[i].embedding[1])
                  # Len(validUnderstandings[j].embedding[1])

InInputOrder(k) ==
    \A m, n \in 1..Len(result[k].understandings) :
        m < n => PositionOf(result[k].understandings[m])
                     < PositionOf(result[k].understandings[n])

(* The earliest member of returned cluster k has a similarity of at least  *)
(* 0.75 with every other member.                                           *)
Anchored(k) ==
    \A u \in Members(k) :
        PositionOf(u) # EarliestPosition(k) => Edge(EarliestPosition(k), PositionOf(u))

(* C26 as claimed: the members of every returned cluster are listed in     *)
(* the relative order they have in the input list.                         *)
C26_MembersInInputOrder ==
    HasReturned => \A k \in 1..Len(result) : InInputOrder(k)

(* C26, amended: the members of a returned cluster are listed in input     *)
(* order when the cluster has at most two members or when its earliest     *)
(* member has a similarity of at least 0.75 with every other member.       *)
C26_AnchoredMembersInInputOrder ==
    HasReturned =>
        \A k \in 1..Len(result) :
            (Len(result[k].understandings) <= 2 \/ Anchored(k)) => InInputOrder(k)

(* A returned cluster of three members, two of them joined only through    *)
(* the earliest one, listed in input order.                                *)
C26_Witness ==
    /\ HasReturned
    /\ \E k \in 1..Len(result) :
           /\ Len(result[k].understandings) = 3
           /\ Anchored(k)
           /\ InInputOrder(k)
           /\ \E u, v \in Members(k) : u # v /\ ~Edge(PositionOf(u), PositionOf(v))

(* The input positions whose embedding is a non-empty vector of zeros. *)
ZeroPositions ==
    {p \in UsablePositions : IsZeroVector(understandings[p].embedding[1])}

(* C27: a statement whose embedding is a non-empty vector of zeros is not  *)
(* treated as one without embedding: in every returned list it is the only *)
(* member of exactly one cluster, the percentage of every cluster is its   *)
(* size over the number of statements with a non-empty embedding, the ones *)
(* with a zero vector included, and a statement without embedding is in no *)
(* cluster.                                                                *)
C27_ZeroVectorIsSingleton ==
    HasReturned =>
        /\ \A p \in ZeroPositions :
               /\ Cardinality(ClustersWith(understandings[p])) = 1
               /\ \A k \in ClustersWith(understandings[p]) :
                      /\ result[k].size = 1
                      /\ Members(k) = {understandings[p]}
        /\ \A k \in 1..Len(result) :
               result[k].percentage
                   = FMulInt(FDivInt(result[k].size, Cardinality(UsablePositions)), 100)
        /\ \A p \in 1..Len(understandings) :
               understandings[p].embedding = Null =>
                   ClustersWith(understandings[p]) = {}

(* A statement with a zero vector, one without embedding and one with      *)
(* another vector: two clusters of 50 percent each.                        *)
C27_Witness ==
    /\ HasReturned
    /\ Len(understandings) = 3
    /\ ZeroPositions # {}
    /\ \E p \in 1..Len(understandings) : understandings[p].embedding = Null
    /\ Len(result) = 2
    /\ \A k \in 1..2 : result[k].percentage = FFromInt(50)

(* GET /api/consensus, lines 48 and 92: the response is neither an error   *)
(* nor one of the two 'need at least 2' messages.                          *)
ConsensusRouteAnalysed(us) ==
    /\ Len(SelectSeq(us, NotNullEmbedding)) >= 2
    /\ Len(Filter(SelectSeq(us, NotNullEmbedding))) >= 2

(* GET /api/consensus, lines 51, 95 and 120: total_understandings. *)
ConsensusRouteTotal(us) ==
    LET fetched == SelectSeq(us, NotNullEmbedding)
    IN  IF Len(fetched) < 2 THEN Len(fetched)
        ELSE IF Len(Filter(fetched)) < 2 THEN Len(Filter(fetched))
        ELSE Len(fetched)

(* GET /api/consensus, lines 53, 97 and 109-119: the clusters it returns,  *)
(* made from the list clusterUnderstandings returned.                      *)
ConsensusRouteClusters(us, cls) ==
    IF ConsensusRouteAnalysed(us)
    THEN [k \in 1..Len(cls) |->
             [id |-> cls[k].id,
              size |-> cls[k].size,
              percentage |-> RoundToTenth(cls[k].percentage),
              representative_text |-> cls[k].representative_text]]
    ELSE <<>>

RECURSIVE SumOfSizes(_)
SumOfSizes(cls) ==
    IF cls = <<>> THEN 0 ELSE Head(cls).size + SumOfSizes(Tail(cls))

(* C28 as claimed: in every response of GET /api/consensus that carries an *)
(* analysis, the sizes of the returned clusters add up to the returned     *)
(* total_understandings and the percentage of each cluster is its size     *)
(* over total_understandings times 100 (to one decimal), also when a       *)
(* fetched statement has an empty embedding.                               *)
C28_SizesSumToTotal ==
    (pc = "scored" /\ ConsensusRouteAnalysed(understandings)) =>
        LET returned == ConsensusRouteClusters(understandings, result)
        IN  /\ SumOfSizes(returned) = ConsensusRouteTotal(understandings)
            /\ \A k \in 1..Len(returned) :
                   returned[k].percentage
                       = RoundToTenth(FMulInt(FDivInt(returned[k].size,
                                                      ConsensusRouteTotal(understandings)),
                                              100))


(* C29 as claimed: on every pair of embeddings the merge loop evaluates,   *)
(* calculateCosineSimilarity of the predictions route has the outcome of   *)
(* cosineSimilarity: the same number for two vectors of the same length,   *)
(* the zero vector among them, and the same failure for two vectors of     *)
(* different lengths.                                                      *)
C29_HelperAgreesWithCore ==
    PairPending =>
        calculateCosineSimilarity(validUnderstandings[i].embedding[1],
                                  validUnderstandings[j].embedding[1])
            = cosineSimilarity(validUnderstandings[i].embedding[1],
                               validUnderstandings[j].embedding[1])

====
